---------------------------- MODULE Spec2Model ----------------------------
(***************************************************************************)
(* State-machine model of wasm2openapi (crates/wasm2openapi/src/main.rs):  *)
(* the JSON <-> component value codec (Value::from_json, Value::to_json),  *)
(* the endpoint registry (get_endpoints) and the request dispatcher        *)
(* (Endpoint::call under the shared Arc<Mutex<Store>>).                    *)
(*                                                                         *)
(* Three specifications share the variables:                               *)
(*   Spec          the dispatcher: concurrent requests against one store   *)
(*   SpecCodec     from_json followed by to_json on one (json, type) pair  *)
(*   SpecRegistry  the loop of get_endpoints over a list of functions      *)
(*                                                                         *)
(* Integers of the model are TLC integers (32-bit signed), so JSON numbers *)
(* range over -2^31 .. 2^31-1.  The 8- and 16-bit casts wrap exactly as    *)
(* `as u8`, `as i16`, ... do; the 32- and 64-bit casts are the identity on *)
(* every number the model can hold.  The Float32/Float64 arms of the codec *)
(* need IEEE rounding and are left out: the type set below is the          *)
(* non-float scalars plus Id.                                              *)
(***************************************************************************)
EXTENDS Integers, Sequences, FiniteSets, TLC

VARIABLES
    \* ---- codec (SpecCodec)
    cPc,          \* "input" | "encoded" | "decoded" | "panicked"
    cJson,        \* the serde_json::Value handed to from_json
    cTy,          \* the wit_parser::Type handed to from_json
    cVal,         \* the Val from_json produced
    cOut,         \* the serde_json::Value to_json produced
    \* ---- registry (SpecRegistry)
    worlds,       \* wit.resolve().worlds: the decoded interface description
    functions,    \* Vec<(&String, &Function)>: the introspected functions
    fnIdx,        \* position of the for loop of get_endpoints
    endpoints,    \* Vec<Endpoint> being built
    \* ---- dispatcher (Spec)
    pc,           \* per request: position inside Endpoint::call
    reqEndpoint,  \* per request: the prototype of the endpoint it was routed to
    payload,      \* per request: the JSON body, a map from keys to JSON values
    lockHolder,   \* the request holding the MutexGuard, or NoReq
    poisoned,     \* the Mutex's poison flag
    parameters,   \* per request: Vec<Val> built by decode_parameters
    callRes,      \* per request: "none" | "ok" | "err", the Result of callable.call
    results,      \* per request: the results vector after the call
    calls,        \* per request: number of callable.call invocations
    postReturns,  \* per request: number of callable.post_return invocations
    postRes,      \* per request: "none" | "ok" | "err", the Result of post_return
    response      \* per request: the HttpResponse, or NoResponse

codecVars == <<cPc, cJson, cTy, cVal, cOut>>
registryVars == <<worlds, functions, fnIdx, endpoints>>
dispatchVars == <<pc, reqEndpoint, payload, lockHolder, poisoned, parameters,
                  callRes, results, calls, postReturns, postRes, response>>
vars == <<cPc, cJson, cTy, cVal, cOut, worlds, functions, fnIdx, endpoints,
          pc, reqEndpoint, payload, lockHolder, poisoned, parameters,
          callRes, results, calls, postReturns, postRes, response>>

---------------------------------------------------------------------------
(* Bounds *)

\* longest JSON string drawn as a codec input
MaxStrLen == 2
\* number of concurrent requests
NumReqs == 2
\* most worlds a decoded interface description holds
MaxWorlds == 2

---------------------------------------------------------------------------
(* JSON values (serde_json::Value).  One record shape for every kind:      *)
(*   k  the kind: "null", "bool", "int", "float", "str", "object"          *)
(*   b  the boolean of a "bool"                                            *)
(*   n  the integer of an "int" (Number::PosInt / NegInt); for a "float"   *)
(*      twice the value, so 3.5 is n = 7                                   *)
(*   s  the characters of a "str", a sequence of Unicode code points       *)
(*   o  the members of an "object", a set of <<key, value>> pairs          *)

JNull == [k |-> "null", b |-> FALSE, n |-> 0, s |-> <<>>, o |-> {}]
JBool(x) == [k |-> "bool", b |-> x, n |-> 0, s |-> <<>>, o |-> {}]
JInt(x) == [k |-> "int", b |-> FALSE, n |-> x, s |-> <<>>, o |-> {}]
JFloat(twice) == [k |-> "float", b |-> FALSE, n |-> twice, s |-> <<>>, o |-> {}]
JStr(x) == [k |-> "str", b |-> FALSE, n |-> 0, s |-> x, o |-> {}]
JObject(members) == [k |-> "object", b |-> FALSE, n |-> 0, s |-> <<>>, o |-> members]

(* Component values (wasmtime::component::Val): t is the variant, b the    *)
(* bool, n the integer or the char's code point, s the string.             *)
MkVal(t, b, n, s) == [t |-> t, b |-> b, n |-> n, s |-> s]
VBool(x) == MkVal("Bool", x, 0, <<>>)
VInt(t, x) == MkVal(t, FALSE, x, <<>>)
VChar(x) == MkVal("Char", FALSE, x, <<>>)
VString(x) == MkVal("String", FALSE, 0, x)

\* wit_parser::Type, without the float descriptors
Types == {"Bool", "U8", "U16", "U32", "U64", "S8", "S16", "S32", "S64",
          "Char", "String", "Id"}

MaxS32 == 2147483647
MinS32 == -2147483647 - 1

---------------------------------------------------------------------------
(* serde_json accessors *)

Some(x) == [some |-> TRUE, v |-> x]
None(dflt) == [some |-> FALSE, v |-> dflt]

as_bool(v) == IF v.k = "bool" THEN Some(v.b) ELSE None(FALSE)
\* Some for a Number::PosInt only
as_u64(v) == IF v.k = "int" /\ v.n >= 0 THEN Some(v.n) ELSE None(0)
\* Some for PosInt (up to i64::MAX) and NegInt; None for a Float
as_i64(v) == IF v.k = "int" THEN Some(v.n) ELSE None(0)
as_str(v) == IF v.k = "str" THEN Some(v.s) ELSE None(<<>>)

---------------------------------------------------------------------------
(* Rust `as` casts between integer widths *)

\* `x as uW`: the low W bits
CastUnsigned(x, w) == IF w >= 32 THEN x ELSE x % (2 ^ w)
\* `x as iW`: the low W bits read as two's complement
CastSigned(x, w) ==
    IF w >= 32 THEN x
    ELSE LET m == x % (2 ^ w)
         IN IF m >= 2 ^ (w - 1) THEN m - 2 ^ w ELSE m

\* first byte of the UTF-8 encoding of code point c (str::as_bytes()[0])
Utf8FirstByte(c) ==
    IF c < 128 THEN c
    ELSE IF c < 2048 THEN 192 + (c \div 64)
    ELSE IF c < 65536 THEN 224 + (c \div 4096)
    ELSE 240 + (c \div 262144)

---------------------------------------------------------------------------
(* Value::from_json.  Every arm unwraps the accessor's Option, so a JSON   *)
(* value of the wrong kind panics; the result is Done(val) or Panicked.    *)

Done(val) == [ok |-> TRUE, val |-> val]
Panicked == [ok |-> FALSE, val |-> VBool(FALSE)]

from_json(v, ty) ==
    CASE ty = "Bool" ->
           IF as_bool(v).some THEN Done(VBool(as_bool(v).v)) ELSE Panicked
      [] ty = "U8" ->
           IF as_u64(v).some THEN Done(VInt("U8", CastUnsigned(as_u64(v).v, 8)))
           ELSE Panicked
      [] ty = "U16" ->
           IF as_u64(v).some THEN Done(VInt("U16", CastUnsigned(as_u64(v).v, 16)))
           ELSE Panicked
      [] ty = "U32" ->
           IF as_u64(v).some THEN Done(VInt("U32", CastUnsigned(as_u64(v).v, 32)))
           ELSE Panicked
      [] ty = "U64" ->
           IF as_u64(v).some THEN Done(VInt("U64", as_u64(v).v)) ELSE Panicked
      [] ty = "S8" ->
           IF as_i64(v).some THEN Done(VInt("S8", CastSigned(as_i64(v).v, 8)))
           ELSE Panicked
      [] ty = "S16" ->
           IF as_i64(v).some THEN Done(VInt("S16", CastSigned(as_i64(v).v, 16)))
           ELSE Panicked
      [] ty = "S32" ->
           IF as_i64(v).some THEN Done(VInt("S32", CastSigned(as_i64(v).v, 32)))
           ELSE Panicked
      [] ty = "S64" ->
           IF as_i64(v).some THEN Done(VInt("S64", as_i64(v).v)) ELSE Panicked
      [] ty = "String" ->
           IF as_str(v).some THEN Done(VString(as_str(v).v)) ELSE Panicked
      [] ty = "Char" ->
           \* as_bytes()[0] is out of bounds for the empty string
           IF as_str(v).some /\ Len(as_str(v).v) > 0
           THEN Done(VChar(Utf8FirstByte(as_str(v).v[1])))
           ELSE Panicked
      [] OTHER -> Panicked    \* Type::Id(_) => todo!()

(* Value::to_json on the scalar variants *)
to_json(val) ==
    CASE val.t = "Bool" -> JBool(val.b)
      [] val.t \in {"U8", "U16", "U32", "U64", "S8", "S16", "S32", "S64"} ->
           JInt(val.n)
      [] val.t = "Char" -> JStr(<<val.n>>)
      [] val.t = "String" -> JStr(val.s)


---------------------------------------------------------------------------
(* Values the variables of a specification that is not running hold *)

NoReq == 0
Reqs == 1 .. NumReqs
NoResponse == [status |-> 0, body |-> JNull]

CodecIdle ==
    /\ cPc = "idle"
    /\ cJson = JNull
    /\ cTy = "Bool"
    /\ cVal = VBool(FALSE)
    /\ cOut = JNull

RegistryIdle ==
    /\ worlds = <<>>
    /\ functions = <<>>
    /\ fnIdx = 1
    /\ endpoints = <<>>

DispatchIdle ==
    /\ pc = [r \in Reqs |-> "idle"]
    /\ reqEndpoint = [r \in Reqs |-> "none"]
    /\ payload = [r \in Reqs |-> <<>>]
    /\ lockHolder = NoReq
    /\ poisoned = FALSE
    /\ parameters = [r \in Reqs |-> <<>>]
    /\ callRes = [r \in Reqs |-> "none"]
    /\ results = [r \in Reqs |-> <<>>]
    /\ calls = [r \in Reqs |-> 0]
    /\ postReturns = [r \in Reqs |-> 0]
    /\ postRes = [r \in Reqs |-> "none"]
    /\ response = [r \in Reqs |-> NoResponse]

---------------------------------------------------------------------------
(* SpecCodec: one JSON value and one type go through from_json, and the    *)
(* value it yields through to_json.                                        *)

\* 'A', 'a', U+00E9, U+20AC, U+1F600: one to four bytes of UTF-8
CodePoints == {65, 97, 233, 8364, 128512}
StringSamples == UNION {[1 .. l -> CodePoints] : l \in 0 .. MaxStrLen}
\* the edges of every width the model can hold, and their neighbours
IntSamples == {MinS32, -32769, -32768, -129, -128, -1, 0, 1, 2, 3, 127, 128,
               255, 256, 32767, 32768, 65535, 65536, MaxS32}
\* 3.5, 3.0 and -0.5, as twice their value
FloatSamples == {7, 6, -1}
JsonSamples ==
    {JNull} \cup {JBool(x) : x \in BOOLEAN} \cup {JInt(x) : x \in IntSamples}
    \cup {JFloat(x) : x \in FloatSamples} \cup {JStr(x) : x \in StringSamples}

CodecInit ==
    /\ cPc = "input"
    /\ cJson \in JsonSamples
    /\ cTy \in Types
    /\ cVal = VBool(FALSE)
    /\ cOut = JNull
    /\ RegistryIdle
    /\ DispatchIdle

\* Value::from_json(&cJson, &cTy)
CodecEncode ==
    /\ cPc = "input"
    /\ LET res == from_json(cJson, cTy)
       IN IF res.ok
          THEN cPc' = "encoded" /\ cVal' = res.val
          ELSE cPc' = "panicked" /\ cVal' = cVal
    /\ UNCHANGED <<cJson, cTy, cOut>>
    /\ UNCHANGED <<registryVars, dispatchVars>>

\* Value(cVal).to_json()
CodecDecode ==
    /\ cPc = "encoded"
    /\ cPc' = "decoded"
    /\ cOut' = to_json(cVal)
    /\ UNCHANGED <<cJson, cTy, cVal>>
    /\ UNCHANGED <<registryVars, dispatchVars>>

CodecNext == CodecEncode \/ CodecDecode

SpecCodec == CodecInit /\ [][CodecNext]_vars

---------------------------------------------------------------------------
(* SpecRegistry: list_wasm_component_functions over the decoded worlds,    *)
(* then the for loop of get_endpoints, one iteration per step.             *)

WorldNames == {"root", "foo"}
\* a world's export items: two functions and an interface
ExportItems == {[kind |-> "function", name |-> "add"],
                [kind |-> "function", name |-> "sub"],
                [kind |-> "interface", name |-> "math"]}
\* the exports of one world: an IndexMap, so no item twice, in insertion order
ExportLists ==
    {s \in UNION {[1 .. l -> ExportItems] : l \in 0 .. Cardinality(ExportItems)} :
        \A i, j \in DOMAIN s : i # j => s[i] # s[j]}
WorldSamples == [name : WorldNames, exports : ExportLists]
WorldLists == UNION {[1 .. l -> WorldSamples] : l \in 0 .. MaxWorlds}

\* world.exports.iter().filter_map(..): the functions of one world, each
\* paired with the world's name
RECURSIVE world_functions(_, _)
world_functions(world, i) ==
    IF i > Len(world.exports) THEN <<>>
    ELSE (IF world.exports[i].kind = "function"
          THEN <<[world |-> world.name, name |-> world.exports[i].name]>>
          ELSE <<>>) \o world_functions(world, i + 1)

\* worlds.iter().flat_map(..).collect()
RECURSIVE list_wasm_component_functions(_, _)
list_wasm_component_functions(ws, i) ==
    IF i > Len(ws) THEN <<>>
    ELSE world_functions(ws[i], 1) \o list_wasm_component_functions(ws, i + 1)

\* format!("/{}/{}", world_name, function.name)
format_path(world_name, function_name) ==
    "/" \o world_name \o "/" \o function_name

\* Endpoint::new(path, prototype, callable); the callable is the export
\* that component_instance.get_func resolves by the function's name alone
NewEndpoint(f) ==
    [path |-> format_path(f.world, f.name), prototype |-> f.name,
     callable |-> f.name]

RegistryInit ==
    /\ worlds \in WorldLists
    /\ functions = list_wasm_component_functions(worlds, 1)
    /\ fnIdx = 1
    /\ endpoints = <<>>
    /\ CodecIdle
    /\ DispatchIdle

\* one iteration of `for (world_name, function) in functions`
PushEndpoint ==
    /\ fnIdx <= Len(functions)
    /\ endpoints' = Append(endpoints, NewEndpoint(functions[fnIdx]))
    /\ fnIdx' = fnIdx + 1
    /\ UNCHANGED <<worlds, functions>>
    /\ UNCHANGED <<codecVars, dispatchVars>>

RegistryNext == PushEndpoint

RegistryDone == fnIdx > Len(functions)

SpecRegistry == RegistryInit /\ [][RegistryNext]_vars

---------------------------------------------------------------------------
(* Spec: the dispatcher.  Each request is one run of Endpoint::call on an  *)
(* actix worker thread; all of them share the one Arc<Mutex<Store<()>>>.   *)

\* Function prototypes of the served endpoints.  params is the ordered
\* (name, type) list; results is wit_parser::Results, whose len() is the
\* number of named results, or 1 for an anonymous one.
Param(name, ty) == [name |-> name, ty |-> ty]
Prototypes ==
    [add    |-> [params |-> <<Param("x", "S32"), Param("y", "S32")>>,
                 shape |-> "Anon", results |-> <<Param("", "S32")>>],
     divmod |-> [params |-> <<Param("a", "U8"), Param("b", "U8")>>,
                 shape |-> "Named",
                 results |-> <<Param("q", "U8"), Param("r", "U8")>>],
     upper  |-> [params |-> <<Param("c", "Char")>>,
                 shape |-> "Named", results |-> <<Param("out", "Char")>>],
     ping   |-> [params |-> <<>>, shape |-> "Named", results |-> <<>>]]
EndpointNames == DOMAIN Prototypes

\* JSON bodies posted to each endpoint, as sets of <<key, value>> members
Bodies ==
    [add    |-> {{<<"x", JInt(2)>>, <<"y", JInt(3)>>},
                 {<<"x", JInt(2)>>},
                 {<<"x", JStr(<<50>>)>>, <<"y", JInt(3)>>}},
     divmod |-> {{<<"a", JInt(7)>>, <<"b", JInt(2)>>},
                 {<<"a", JInt(256)>>, <<"b", JInt(2)>>}},
     upper  |-> {{<<"c", JStr(<<97>>)>>},
                 {<<"c", JStr(<<97, 98>>)>>}},
     ping   |-> {{}}]

\* HashMap::get: the value stored under key, if any
get(body, key) ==
    IF \E m \in body : m[1] = key
    THEN Some((CHOOSE m \in body : m[1] = key)[2])
    ELSE None(JNull)

\* Endpoint::decode_parameters: the iterator visits the parameters in
\* signature order; a missing key or a value from_json cannot take panics.
RECURSIVE decode_from(_, _, _)
decode_from(params, body, i) ==
    IF i > Len(params) THEN [ok |-> TRUE, vals |-> <<>>]
    ELSE LET v == get(body, params[i].name)
         IN IF ~v.some THEN [ok |-> FALSE, vals |-> <<>>]
            ELSE LET val == from_json(v.v, params[i].ty)
                 IN IF ~val.ok THEN [ok |-> FALSE, vals |-> <<>>]
                    ELSE LET rest == decode_from(params, body, i + 1)
                         IN IF ~rest.ok THEN rest
                            ELSE [ok |-> TRUE, vals |-> <<val.val>> \o rest.vals]

decode_parameters(proto, body) == decode_from(proto.params, body, 1)

\* the guest's add (crates/components/add): x + y on i32
GuestAdd(x, y) == CastSigned(x + y, 32)

\* values a guest function may hand back for a result of type ty
ResultSamples(ty) ==
    CASE ty = "U8" -> {VInt("U8", 3)}
      [] ty = "Char" -> {VChar(65), VChar(233)}
      [] OTHER -> {VBool(FALSE)}

\* The result vectors callable.call can leave behind on Ok: for add the sum
\* of its arguments, for the other guests any vector of the result types.
CallResults(name, args) ==
    IF name = "add" THEN {<<VInt("S32", GuestAdd(args[1].n, args[2].n))>>}
    ELSE LET rs == Prototypes[name].results
         IN {v \in [1 .. Len(rs) -> UNION {ResultSamples(rs[i].ty) : i \in 1 .. Len(rs)}] :
                \A i \in 1 .. Len(rs) : v[i] \in ResultSamples(rs[i].ty)}

Terminal == {"responded", "failed", "panicked"}

\* a lock() that does not wait for the guard's holder
LockFreeNoExclusion == TRUE

\* no thread holds the MutexGuard
LockFree == lockHolder = NoReq

\* actix routes a POST to the endpoint's handler with its JSON body
Route(r) ==
    /\ pc[r] = "idle"
    /\ \E e \in EndpointNames : \E body \in Bodies[e] :
          /\ reqEndpoint' = [reqEndpoint EXCEPT ![r] = e]
          /\ payload' = [payload EXCEPT ![r] = body]
    /\ pc' = [pc EXCEPT ![r] = "lock"]
    /\ UNCHANGED <<lockHolder, poisoned, parameters, callRes, results, calls,
                   postReturns, postRes, response>>
    /\ UNCHANGED <<codecVars, registryVars>>

\* state.lock().unwrap(): blocks while another thread holds the guard; on a
\* poisoned mutex lock() is Err and unwrap panics, dropping the guard again
Lock(r) ==
    /\ pc[r] = "lock"
    /\ LockFree
    /\ IF poisoned
       THEN pc' = [pc EXCEPT ![r] = "panicked"] /\ lockHolder' = lockHolder
       ELSE pc' = [pc EXCEPT ![r] = "decoding"] /\ lockHolder' = r
    /\ UNCHANGED <<reqEndpoint, payload, poisoned, parameters, callRes, results,
                   calls, postReturns, postRes, response>>
    /\ UNCHANGED <<codecVars, registryVars>>

\* a panic unwinds Endpoint::call: the guard is dropped while panicking,
\* which unlocks the mutex and poisons it; the handler returns no response
Unwind(r) ==
    /\ pc' = [pc EXCEPT ![r] = "panicked"]
    /\ lockHolder' = NoReq
    /\ poisoned' = TRUE

\* self.decode_parameters(payload).unwrap(), then the results vector
DecodeParameters(r) ==
    /\ pc[r] = "decoding"
    /\ LET res == decode_parameters(Prototypes[reqEndpoint[r]], payload[r])
       IN IF res.ok
          THEN /\ parameters' = [parameters EXCEPT ![r] = res.vals]
               /\ results' = [results EXCEPT ![r] =
                     [i \in 1 .. Len(Prototypes[reqEndpoint[r]].results) |-> VBool(FALSE)]]
               /\ pc' = [pc EXCEPT ![r] = "invoking"]
               /\ UNCHANGED <<lockHolder, poisoned>>
          ELSE /\ Unwind(r)
               /\ UNCHANGED <<parameters, results>>
    /\ UNCHANGED <<reqEndpoint, payload, callRes, calls, postReturns, postRes,
                   response>>
    /\ UNCHANGED <<codecVars, registryVars>>

\* a call whose Err returns the 400 response at once, before post_return
CallEarlyReturn(r) ==
    /\ pc[r] = "invoking"
    /\ calls' = [calls EXCEPT ![r] = @ + 1]
    /\ \/ /\ callRes' = [callRes EXCEPT ![r] = "ok"]
          /\ \E out \in CallResults(reqEndpoint[r], parameters[r]) :
                results' = [results EXCEPT ![r] = out]
          /\ pc' = [pc EXCEPT ![r] = "postreturn"]
          /\ UNCHANGED <<lockHolder, response>>
       \/ /\ callRes' = [callRes EXCEPT ![r] = "err"]
          /\ results' = results
          /\ response' = [response EXCEPT ![r] =
                [status |-> 400, body |-> JObject({})]]
          /\ pc' = [pc EXCEPT ![r] = "failed"]
          /\ lockHolder' = NoReq
    /\ UNCHANGED <<reqEndpoint, payload, poisoned, parameters, postReturns,
                   postRes>>
    /\ UNCHANGED <<codecVars, registryVars>>

\* self.callable.call(store, &parameters, &mut results): Ok with the results
\* filled in, or Err (a trap) with the results left as they were
Call(r) ==
    /\ pc[r] = "invoking"
    /\ calls' = [calls EXCEPT ![r] = @ + 1]
    /\ \/ /\ callRes' = [callRes EXCEPT ![r] = "ok"]
          /\ \E out \in CallResults(reqEndpoint[r], parameters[r]) :
                results' = [results EXCEPT ![r] = out]
       \/ /\ callRes' = [callRes EXCEPT ![r] = "err"]
          /\ results' = results
    /\ pc' = [pc EXCEPT ![r] = "postreturn"]
    /\ UNCHANGED <<reqEndpoint, payload, lockHolder, poisoned, parameters,
                   postReturns, postRes, response>>
    /\ UNCHANGED <<codecVars, registryVars>>

\* self.callable.post_return(store).unwrap()
PostReturn(r) ==
    /\ pc[r] = "postreturn"
    /\ postReturns' = [postReturns EXCEPT ![r] = @ + 1]
    /\ \/ /\ postRes' = [postRes EXCEPT ![r] = "ok"]
          /\ pc' = [pc EXCEPT ![r] = "encoding"]
          /\ UNCHANGED <<lockHolder, poisoned>>
       \/ /\ postRes' = [postRes EXCEPT ![r] = "err"]
          /\ Unwind(r)
    /\ UNCHANGED <<reqEndpoint, payload, parameters, callRes, results, calls,
                   response>>
    /\ UNCHANGED <<codecVars, registryVars>>

\* match res: Ok => 200 with Value(results[0].clone()).to_json(), where
\* results[0] is out of bounds for an empty results vector; Err => 400 "{}".
\* The guard is dropped when call returns.
Respond(r) ==
    /\ pc[r] = "encoding"
    /\ IF callRes[r] = "ok"
       THEN IF Len(results[r]) = 0
            THEN Unwind(r) /\ response' = response
            ELSE /\ response' = [response EXCEPT ![r] =
                        [status |-> 200, body |-> to_json(results[r][1])]]
                 /\ pc' = [pc EXCEPT ![r] = "responded"]
                 /\ lockHolder' = NoReq
                 /\ poisoned' = poisoned
       ELSE /\ response' = [response EXCEPT ![r] =
                   [status |-> 400, body |-> JObject({})]]
            /\ pc' = [pc EXCEPT ![r] = "failed"]
            /\ lockHolder' = NoReq
            /\ poisoned' = poisoned
    /\ UNCHANGED <<reqEndpoint, payload, parameters, callRes, results, calls,
                   postReturns, postRes>>
    /\ UNCHANGED <<codecVars, registryVars>>

Init == CodecIdle /\ RegistryIdle /\ DispatchIdle

Next ==
    \E r \in Reqs :
        \/ Route(r)
        \/ Lock(r)
        \/ DecodeParameters(r)
        \/ Call(r)
        \/ PostReturn(r)
        \/ Respond(r)

Spec == Init /\ [][Next]_vars

---------------------------------------------------------------------------
(* Schema of an endpoint's 200 response *)

Schema(type, properties) == [type |-> type, properties |-> properties]

\* Type::into_schema: the JSON Schema type of a descriptor
into_schema(ty) ==
    CASE ty = "Bool" -> Schema("boolean", {})
      [] ty \in {"U8", "U16", "U32", "U64", "S8", "S16", "S32", "S64"} ->
           Schema("integer", {})
      [] ty \in {"Char", "String", "Id"} -> Schema("string", {})

\* Endpoint::result_schema: an object with one property per named result,
\* or the schema of the anonymous result's type
result_schema(proto) ==
    IF proto.shape = "Named"
    THEN Schema("object",
                {<<proto.results[i].name, into_schema(proto.results[i].ty)>> :
                    i \in 1 .. Len(proto.results)})
    ELSE into_schema(proto.results[1].ty)

---------------------------------------------------------------------------
(* Vocabulary of the claims *)

ScalarTypes == Types \ {"Id"}

\* the JSON values valid under a scalar descriptor
Valid(v, ty) ==
    CASE ty = "Bool" -> v.k = "bool"
      [] ty = "U8" -> v.k = "int" /\ 0 <= v.n /\ v.n <= 255
      [] ty = "U16" -> v.k = "int" /\ 0 <= v.n /\ v.n <= 65535
      [] ty \in {"U32", "U64"} -> v.k = "int" /\ 0 <= v.n
      [] ty = "S8" -> v.k = "int" /\ -128 <= v.n /\ v.n <= 127
      [] ty = "S16" -> v.k = "int" /\ -32768 <= v.n /\ v.n <= 32767
      [] ty \in {"S32", "S64"} -> v.k = "int"
      [] ty = "Char" -> v.k = "str" /\ Len(v.s) = 1
      [] ty = "String" -> v.k = "str"
      [] OTHER -> FALSE

\* a JSON value has the shape a schema describes
Conforms(v, schema) ==
    CASE schema.type = "boolean" -> v.k = "bool"
      [] schema.type = "integer" -> v.k = "int"
      [] schema.type = "string" -> v.k = "str"
      [] schema.type = "object" ->
           /\ v.k = "object"
           /\ {m[1] : m \in v.o} = {q[1] : q \in schema.properties}

\* parameters of request r's signature with no key in its body
MissingParams(r) ==
    LET ps == Prototypes[reqEndpoint[r]].params
    IN {i \in 1 .. Len(ps) : ~get(payload[r], ps[i].name).some}

Min(S) == CHOOSE x \in S : \A y \in S : x <= y

\* how request r ended, seen from the caller of Endpoint::call
Outcome(r) ==
    CASE pc[r] = "responded" -> [kind |-> "Ok", name |-> ""]
      [] pc[r] = "failed" -> [kind |-> "CallFailed", name |-> ""]
      [] pc[r] = "panicked" -> [kind |-> "Panic", name |-> ""]
      [] OTHER -> [kind |-> "Pending", name |-> ""]

\* the response the call's own result asks for
ResponseOfCall(r) ==
    IF callRes[r] = "ok"
    THEN IF Prototypes[reqEndpoint[r]].shape = "Named"
         THEN [status |-> 200,
               body |-> JObject({<<Prototypes[reqEndpoint[r]].results[i].name,
                                   to_json(results[r][i])>> :
                                    i \in 1 .. Len(results[r])})]
         ELSE [status |-> 200, body |-> to_json(results[r][1])]
    ELSE [status |-> 400, body |-> JObject({})]

InInvoking(r) == pc[r] \in {"invoking", "postreturn"}

\* the paths of fs with every later repetition of a path dropped
RECURSIVE FirstWins(_, _, _)
FirstWins(fs, i, kept) ==
    IF i > Len(fs) THEN kept
    ELSE LET p == format_path(fs[i].world, fs[i].name)
         IN IF \E j \in DOMAIN kept : kept[j] = p
            THEN FirstWins(fs, i + 1, kept)
            ELSE FirstWins(fs, i + 1, Append(kept, p))

---------------------------------------------------------------------------
(* Claims *)

\* C1: at most one request is in its Invoking phase (callable.call plus
\* post_return) at any time.
C1_InvokingExclusive ==
    \A r1, r2 \in Reqs : (r1 # r2 /\ InInvoking(r1)) => ~InInvoking(r2)

\* C1 witness: one request is between call and post_return while another,
\* already routed, waits for the lock.
C1_Witness ==
    \E r1, r2 \in Reqs : r1 # r2 /\ pc[r1] = "postreturn" /\ pc[r2] = "lock"

\* C2: once a request has ended, in whatever way, it no longer holds the
\* lock and the lock can still be acquired by a later request (it is not
\* left poisoned).
C2_LockUsableAfterExit ==
    \A r \in Reqs : pc[r] \in Terminal => (lockHolder # r /\ ~poisoned)

\* C3: a request whose body lacks a parameter's key ends with the error value
\* MissingParameter(name), name being the first missing parameter in
\* signature order, and without the callable having been invoked.
C3_MissingParameterReported ==
    \A r \in Reqs :
        (pc[r] \in Terminal /\ MissingParams(r) # {}) =>
            /\ Outcome(r) =
                 [kind |-> "MissingParameter",
                  name |-> Prototypes[reqEndpoint[r]].params[Min(MissingParams(r))].name]
            /\ calls[r] = 0

\* C4: from_json with a scalar descriptor yields no value for a JSON value
\* that is not valid under the descriptor: it is rejected, never truncated
\* or wrapped.
C4_InvalidJsonRejected ==
    (cTy \in ScalarTypes /\ ~Valid(cJson, cTy) /\ cPc # "input") => cPc = "panicked"

\* C5: for a scalar descriptor T and a JSON value v valid under T,
\* to_json(from_json(v, T)) is a JSON value equal to v.
C5_RoundTrip ==
    (cTy \in ScalarTypes /\ Valid(cJson, cTy)) =>
        /\ cPc # "panicked"
        /\ cPc = "decoded" => cOut = cJson

\* C6: when post_return fails, the request still ends with the response
\* built from the call's own result or error.
C6_CleanupFailureKeepsOutcome ==
    \A r \in Reqs :
        (pc[r] \in Terminal /\ postRes[r] = "err") =>
            response[r].status = ResponseOfCall(r).status

\* C7: once the callable has been invoked for a request, post_return runs
\* exactly once for it, after the call has returned and before the request
\* gives up the lock, whether the call succeeded or failed.
C7_CleanupExactlyOnce ==
    \A r \in Reqs :
        /\ calls[r] <= 1
        /\ postReturns[r] <= calls[r]
        /\ (calls[r] = 1 /\ lockHolder # r) => postReturns[r] = 1
        /\ (calls[r] = 1 /\ pc[r] # "postreturn") => postReturns[r] = 1

\* C7 witness: a request whose call succeeded and one whose call failed have
\* both ended with their cleanup run once.
C7_Witness ==
    \E r1, r2 \in Reqs :
        /\ callRes[r1] = "ok" /\ callRes[r2] = "err"
        /\ pc[r1] \in Terminal /\ pc[r2] \in Terminal
        /\ postReturns[r1] = 1 /\ postReturns[r2] = 1

\* C8: a successful call is answered with a 200 whose body is an object
\* with one field per named result for a Named result shape, and the single
\* decoded value for an Anonymous one; the body has the shape of the
\* endpoint's response schema.
C8_ResponseShape ==
    \A r \in Reqs :
        (pc[r] \in Terminal /\ callRes[r] = "ok" /\ postRes[r] = "ok") =>
            /\ response[r] = ResponseOfCall(r)
            /\ Conforms(response[r].body, result_schema(Prototypes[reqEndpoint[r]]))

\* C9: a request is always in one of the phases Decoding, Invoking, Encoding,
\* Responded or Failed(kind) (or has not entered Decoding yet) and ends in
\* Responded or Failed only; the callable is invoked only after every
\* parameter was decoded, and at most once.
C9_RequestPhases ==
    \A r \in Reqs :
        /\ pc[r] \in {"idle", "lock", "decoding", "invoking", "postreturn",
                      "encoding", "responded", "failed"}
        /\ calls[r] <= 1
        /\ pc[r] \in {"idle", "lock", "decoding", "invoking"} => calls[r] = 0
        /\ pc[r] \in {"postreturn", "encoding", "responded", "failed"} => calls[r] = 1
        /\ calls[r] = 1 =>
             /\ decode_parameters(Prototypes[reqEndpoint[r]], payload[r]).ok
             /\ parameters[r] =
                  decode_parameters(Prototypes[reqEndpoint[r]], payload[r]).vals

\* C10: the registry never holds two endpoints with the same path, and once
\* built it holds, in order, the first function of every derived path.
C10_FirstWinsRegistry ==
    /\ \A i, j \in DOMAIN endpoints :
          i # j => endpoints[i].path # endpoints[j].path
    /\ RegistryDone =>
          [i \in DOMAIN endpoints |-> endpoints[i].path] = FirstWins(functions, 1, <<>>)

===========================================================================
